---- MODULE Spec2Model ----
(***************************************************************************)
(* Payment allocation and reconciliation engine of the ledger backend      *)
(* (src/unnamed/part_000, the Express/Prisma server): direct payments on   *)
(* a sell item, lump-sum party payments allocated oldest-first, and their  *)
(* reversal.                                                               *)
(*                                                                         *)
(* Money is counted in whole units.  The store is PostgreSQL behind        *)
(* Prisma; prisma.$transaction is given no isolation level, so a           *)
(* transaction runs READ COMMITTED: its writes are invisible to others     *)
(* until it commits, an UPDATE of a row waits while another open           *)
(* transaction holds a write on that row, and every statement reads the    *)
(* rows committed when it runs.                                            *)
(*                                                                         *)
(* Every handler is a sequence of steps, one per awaited store statement   *)
(* (or per group of statements no other request can tell apart).  Each     *)
(* step is a pure operator from (store, request) to (store, request).      *)
(* Spec runs a whole handler in one action (requests one after the other); *)
(* SpecShadow runs beside it the store that leaves one party payment out;  *)
(* SpecEdit adds updates of the sell transactions.  SpecTx runs two        *)
(* requests step by step, interleaved, with failures; SpecOne the same     *)
(* steps one request at a time.  SpecPay and SpecPayOne are their          *)
(* counterparts with more than one direct payment.                         *)
(***************************************************************************)
EXTENDS Integers, Sequences, FiniteSets, TLC

\* ---------------------------------------------------------------- bounds
MaxAmount == 2
MaxPayments == 1
MaxPartyPayments == 2
MaxRequests == 3
MaxDirectPayments == 2

\* ------------------------------------------------------ the fixed ledger
\* Two parties; party 1 has three sell items, party 2 has one.  The sell
\* transactions (one item each) are dated so that items 2 and 3 tie.
Parties == {1, 2}
Items == {1, 2, 3, 4}
ItemParty(i) == IF i = 4 THEN 2 ELSE 1
ItemDate(i) == IF i \in {1, 4} THEN 1 ELSE 2
ItemTotal(i) == IF i \in {1, 3} THEN 2 ELSE 1
PartyItems(p) == {i \in Items : ItemParty(i) = p}

\* Request inputs.  An amount of 0 stands for a missing or zero amount (both
\* are falsy), an id of 0 for a missing id, and the id one past the last for
\* an id that resolves to no row.
Amounts == (0 - 1)..MaxAmount
UnknownItem == Cardinality(Items) + 1
UnknownParty == Cardinality(Parties) + 1
ItemInputs == Items \cup {0, UnknownItem}
PartyInputs == Parties \cup {0, UnknownParty}
Roles == {"admin", "user"}
Slots == {1, 2}

\* The orders in which findMany may return the sell items: ascending by the
\* date of the parent transaction, ties in any order.
Orders ==
  {o \in [1..Cardinality(Items) -> Items] :
     /\ \A i, j \in DOMAIN o : i # j => o[i] # o[j]
     /\ \A i, j \in DOMAIN o : i < j => ItemDate(o[i]) <= ItemDate(o[j])}

VARIABLES
  created,            \* the SellItem rows as POST /api/transactions created them
  sellItems,          \* SellItem rows: id -> totalAmount, paymentReceived, balanceLeft
  creditBalance,      \* Party.creditBalance, per party
  payments,           \* Payment rows (direct payments)
  partyPayments,      \* PartyPayment rows
  paymentAllocations, \* PaymentAllocation rows
  nextPaymentId,      \* ids handed out to Payment rows so far, plus one
  nextPartyPaymentId, \* ids handed out to PartyPayment rows so far, plus one
  req,                \* SpecTx: the request each slot is serving
  arrivals,           \* SpecTx: the requests that have arrived so far
  last,               \* Spec: the last completed call and its answer
  before,             \* Spec: the store as it was before the payment just created
  shadow,             \* SpecShadow: the store of the run that leaves payment P out
  track               \* SpecShadow: which party payment P is, and how far it got

vars == <<created, sellItems, creditBalance, payments, partyPayments, paymentAllocations,
          nextPaymentId, nextPartyPaymentId, req, arrivals, last, before, shadow, track>>

\* ----------------------------------------------------------- the store
Store ==
  [sellItems |-> sellItems, creditBalance |-> creditBalance, payments |-> payments,
   partyPayments |-> partyPayments, paymentAllocations |-> paymentAllocations]

SetStore(d) ==
  /\ sellItems' = d.sellItems
  /\ creditBalance' = d.creditBalance
  /\ payments' = d.payments
  /\ partyPayments' = d.partyPayments
  /\ paymentAllocations' = d.paymentAllocations

RECURSIVE SumAmount(_)
\* _sum: { amount } of a set of rows, and reduce((sum, a) => sum + a.amount, 0)
SumAmount(rows) ==
  IF rows = {} THEN 0
  ELSE LET x == CHOOSE y \in rows : TRUE IN x.amount + SumAmount(rows \ {x})

RECURSIVE SeqSumAmount(_)
SeqSumAmount(s) == IF s = << >> THEN 0 ELSE Head(s).amount + SeqSumAmount(Tail(s))

Min(a, b) == IF a < b THEN a ELSE b

\* parseFloat of a numeric request field: the number itself.
parseFloat(a) == a

EmptyFn == [x \in {} |-> 0]

\* ------------------------------------------------------------- requests
\* A request: the handler's inputs, its position, its local variables and,
\* inside prisma.$transaction, the writes the transaction has buffered.
NewReq(op, actor, partyId, sellItemId, targetId, newId, amount) ==
  [op |-> op, pc |-> "start", status |-> "pending", actor |-> actor,
   partyId |-> partyId, sellItemId |-> sellItemId, targetId |-> targetId,
   newId |-> newId, amount |-> amount,
   totalAmount |-> 0, totalReceived |-> 0, partyCredit |-> 0,
   sellItemsWithBalance |-> << >>, idx |-> 1, remainingAmount |-> 0,
   allocations |-> << >>, creditAdded |-> 0,
   ppAmount |-> 0, ppAllocations |-> << >>,
   txItems |-> EmptyFn, txCredit |-> EmptyFn, txCreated |-> {}, txDeleted |-> {},
   wrote |-> 0, notified |-> FALSE]

Idle == [NewReq("none", "user", 0, 0, 0, 0, 0) EXCEPT !.pc = "idle"]

Out(d, r) == [db |-> d, r |-> r]

\* res.status(...).json(...): the handler ends and its local variables go.
\* What stays is what the caller was answered, and what the request did.
End(r, status) ==
  [r EXCEPT !.pc = "done", !.status = status,
            !.partyId = 0, !.sellItemId = 0, !.amount = 0,
            !.totalAmount = 0, !.totalReceived = 0, !.partyCredit = 0,
            !.sellItemsWithBalance = << >>, !.idx = 1, !.remainingAmount = 0,
            !.allocations = << >>, !.ppAmount = 0, !.ppAllocations = << >>]

\* The catch block of a handler: the open transaction is rolled back and the
\* handler answers 400.
Rollback(r) ==
  [End(r, "StoreFailure") EXCEPT !.txItems = EmptyFn, !.txCredit = EmptyFn,
                                 !.txCreated = {}, !.txDeleted = {}]

\* notifyAdmin catches its own errors: the handler goes on to answer 200.
Notify(d, r) == Out(d, [End(r, "ok") EXCEPT !.notified = TRUE])

\* NotifyFailed with no try/catch in notifyAdmin: the error reaches the
\* handler's catch.
NotifyThrows(d, r) == Out(d, Rollback(r))

\* The notification sink fails: notifyAdmin's catch logs the error and
\* returns, and the handler goes on to its answer.
NotifyFailed(d, r) == Out(d, End(r, "ok"))

\* ------------------------------------- POST /api/payments (recordPayment)
RpStart(d, r) ==
  IF r.sellItemId = 0 \/ r.amount = 0 THEN Out(d, End(r, "InvalidArgument"))
  ELSE IF r.sellItemId \notin DOMAIN d.sellItems THEN Out(d, End(r, "NotFound"))
  ELSE Out(d, [r EXCEPT !.pc = "rp_create",
                        !.totalAmount = d.sellItems[r.sellItemId].totalAmount])

RpCreate(d, r) ==
  Out([d EXCEPT !.payments = @ \cup {[id |-> r.newId, sellItemId |-> r.sellItemId,
                                      amount |-> parseFloat(r.amount)]}],
      [r EXCEPT !.pc = "rp_aggregate", !.wrote = @ + 1])

RpAggregate(d, r) ==
  Out(d, [r EXCEPT !.pc = "rp_update",
                   !.totalReceived =
                      SumAmount({p \in d.payments : p.sellItemId = r.sellItemId})])

\* RpUpdate with updateMany and no where: every sell item takes the totals.
RpUpdateEveryItem(d, r) ==
  Out([d EXCEPT !.sellItems =
          [i \in DOMAIN @ |->
             [@[i] EXCEPT !.paymentReceived = r.totalReceived,
                          !.balanceLeft = r.totalAmount - r.totalReceived]]],
      [r EXCEPT !.pc = "rp_notify", !.wrote = @ + 1])

\* RpUpdate with { increment: amount } in place of the recomputed sum.
RpUpdateIncrement(d, r) ==
  Out([d EXCEPT !.sellItems[r.sellItemId] =
          [@ EXCEPT !.paymentReceived = @ + r.amount,
                    !.balanceLeft = @ - r.amount]],
      [r EXCEPT !.pc = "rp_notify", !.wrote = @ + 1])

RpUpdate(d, r) ==
  Out([d EXCEPT !.sellItems[r.sellItemId] =
          [@ EXCEPT !.paymentReceived = r.totalReceived,
                    !.balanceLeft = r.totalAmount - r.totalReceived]],
      [r EXCEPT !.pc = "rp_notify", !.wrote = @ + 1])

\* ------------------------------ DELETE /api/payments/:id (deletePayment)
DpStart(d, r) ==
  IF r.actor # "admin" THEN Out(d, End(r, "Forbidden"))
  ELSE IF \A p \in d.payments : p.id # r.targetId THEN Out(d, End(r, "NotFound"))
  ELSE LET payment == CHOOSE p \in d.payments : p.id = r.targetId
       IN Out(d, [r EXCEPT !.pc = "dp_delete",
                           !.sellItemId = payment.sellItemId,
                           !.totalAmount = d.sellItems[payment.sellItemId].totalAmount])

\* prisma.payment.delete throws when the row is gone (a concurrent delete).
DpDelete(d, r) ==
  IF \A p \in d.payments : p.id # r.targetId THEN Out(d, Rollback(r))
  ELSE Out([d EXCEPT !.payments = {p \in @ : p.id # r.targetId}],
           [r EXCEPT !.pc = "dp_aggregate", !.wrote = @ + 1])

DpAggregate(d, r) ==
  Out(d, [r EXCEPT !.pc = "dp_update",
                   !.totalReceived =
                      SumAmount({p \in d.payments : p.sellItemId = r.sellItemId})])

DpUpdate(d, r) ==
  Out([d EXCEPT !.sellItems[r.sellItemId] =
          [@ EXCEPT !.paymentReceived = r.totalReceived,
                    !.balanceLeft = r.totalAmount - r.totalReceived]],
      End([r EXCEPT !.wrote = @ + 1], "ok"))

\* ------------------------------------------------ prisma.$transaction
\* A row as the transaction of request r sees it: its own buffered write,
\* or else the committed row.
TxItem(d, r, i) == IF i \in DOMAIN r.txItems THEN r.txItems[i] ELSE d.sellItems[i]
TxCredit(d, r, p) == IF p \in DOMAIN r.txCredit THEN r.txCredit[p] ELSE d.creditBalance[p]

\* tx.<model>.update: the write is buffered until the commit.
PutItem(r, i, row) ==
  [r EXCEPT !.txItems = [j \in DOMAIN @ \cup {i} |-> IF j = i THEN row ELSE @[j]],
            !.wrote = @ + 1]
PutCredit(r, p, c) ==
  [r EXCEPT !.txCredit = [q \in DOMAIN @ \cup {p} |-> IF q = p THEN c ELSE @[q]],
            !.wrote = @ + 1]

\* Commit with tx.partyPayment.delete in place of the soft delete: the row
\* goes, and its allocation rows with it (onDelete: Cascade).
CommitHardDelete(d, r) ==
  [sellItems |-> [i \in DOMAIN d.sellItems |-> TxItem(d, r, i)],
   creditBalance |-> [p \in DOMAIN d.creditBalance |-> TxCredit(d, r, p)],
   payments |-> d.payments,
   partyPayments |->
      {pp \in d.partyPayments : pp.id \notin r.txDeleted} \cup r.txCreated,
   paymentAllocations |->
      {a \in d.paymentAllocations : a.partyPaymentId \notin r.txDeleted} \cup
        {[partyPaymentId |-> r.newId, sellItemId |-> r.allocations[k].sellItemId,
          amount |-> r.allocations[k].amount] : k \in DOMAIN r.allocations}]

\* The callback of prisma.$transaction returns: COMMIT makes every buffered
\* write visible at once.
Commit(d, r) ==
  [sellItems |-> [i \in DOMAIN d.sellItems |-> TxItem(d, r, i)],
   creditBalance |-> [p \in DOMAIN d.creditBalance |-> TxCredit(d, r, p)],
   payments |-> d.payments,
   partyPayments |->
      {IF pp.id \in r.txDeleted
         THEN [pp EXCEPT !.isDeleted = TRUE, !.deletedAt = "now",
                         !.deletedBy = r.actor, !.deleteReason = "Admin deleted"]
         ELSE pp : pp \in d.partyPayments} \cup r.txCreated,
   paymentAllocations |->
      d.paymentAllocations \cup
        {[partyPaymentId |-> r.newId, sellItemId |-> r.allocations[k].sellItemId,
          amount |-> r.allocations[k].amount] : k \in DOMAIN r.allocations}]

Committed(r) ==
  [r EXCEPT !.txItems = EmptyFn, !.txCredit = EmptyFn, !.txCreated = {}, !.txDeleted = {}]

\* ------------------------ POST /api/party-payments (createPartyPayment)
CppStart(d, r) ==
  IF r.partyId = 0 \/ r.amount = 0 THEN Out(d, End(r, "InvalidArgument"))
  ELSE IF r.partyId \notin DOMAIN d.creditBalance THEN Out(d, End(r, "NotFound"))
  ELSE Out(d, [r EXCEPT !.pc = "cpp_begin",
                        !.partyCredit = d.creditBalance[r.partyId]])

\* findMany with orderBy date 'desc': the newest transaction first.
RECURSIVE FindManyNewestFirst(_, _, _)
FindManyNewestFirst(d, partyId, order) ==
  IF order = << >> THEN << >>
  ELSE LET i == Head(order)
           rest == FindManyNewestFirst(d, partyId, Tail(order))
       IN IF ItemParty(i) = partyId /\ d.sellItems[i].balanceLeft > 0
            THEN rest \o <<[id |-> i, paymentReceived |-> d.sellItems[i].paymentReceived,
                            balanceLeft |-> d.sellItems[i].balanceLeft]>>
            ELSE rest

\* findMany with take: 1: the first row with a balance only.
RECURSIVE FindManyTakeOne(_, _, _)
FindManyTakeOne(d, partyId, order) ==
  IF order = << >> THEN << >>
  ELSE LET i == Head(order)
       IN IF ItemParty(i) = partyId /\ d.sellItems[i].balanceLeft > 0
            THEN <<[id |-> i, paymentReceived |-> d.sellItems[i].paymentReceived,
                    balanceLeft |-> d.sellItems[i].balanceLeft]>>
            ELSE FindManyTakeOne(d, partyId, Tail(order))

\* The rows tx.sellItem.findMany returns, in the order `order` puts them.
RECURSIVE FindMany(_, _, _)
FindMany(d, partyId, order) ==
  IF order = << >> THEN << >>
  ELSE LET i == Head(order)
           rest == FindMany(d, partyId, Tail(order))
       IN IF ItemParty(i) = partyId /\ d.sellItems[i].balanceLeft > 0
            THEN <<[id |-> i, paymentReceived |-> d.sellItems[i].paymentReceived,
                    balanceLeft |-> d.sellItems[i].balanceLeft]>> \o rest
            ELSE rest

\* tx.partyPayment.create, tx.sellItem.findMany, and the loop's first test.
CppBegin(d, r, order) ==
  LET found == FindMany(d, r.partyId, order)
      r1 == [r EXCEPT
               !.txCreated = {[id |-> r.newId, partyId |-> r.partyId,
                               amount |-> parseFloat(r.amount), isDeleted |-> FALSE,
                               deletedAt |-> "null", deletedBy |-> "null",
                               deleteReason |-> "null"]},
               !.wrote = @ + 1,
               !.sellItemsWithBalance = found,
               !.idx = 1,
               !.remainingAmount = parseFloat(r.amount),
               !.allocations = << >>]
  IN Out(d, [r1 EXCEPT !.pc = IF found = << >> \/ r1.remainingAmount <= 0
                                 THEN "cpp_commit" ELSE "cpp_loop"])

\* CppLoop with prisma.sellItem.update in place of tx.sellItem.update: the
\* update runs outside the transaction and is committed at once.
CppLoopOutsideTx(d, r) ==
  LET sellItem == r.sellItemsWithBalance[r.idx]
      allocatableAmount == Min(r.remainingAmount, sellItem.balanceLeft)
      r2 == [r EXCEPT
               !.allocations = Append(@, [sellItemId |-> sellItem.id,
                                          amount |-> allocatableAmount]),
               !.remainingAmount = @ - allocatableAmount,
               !.idx = @ + 1,
               !.wrote = @ + 1]
  IN Out([d EXCEPT !.sellItems[sellItem.id] =
             [@ EXCEPT !.paymentReceived = sellItem.paymentReceived + allocatableAmount,
                       !.balanceLeft = sellItem.balanceLeft - allocatableAmount]],
         [r2 EXCEPT !.pc = IF r2.idx > Len(r.sellItemsWithBalance)
                                \/ r2.remainingAmount <= 0
                             THEN "cpp_commit" ELSE "cpp_loop"])

\* One turn of the allocation loop, and the test that opens the next turn.
CppLoop(d, r) ==
  LET sellItem == r.sellItemsWithBalance[r.idx]
      allocatableAmount == Min(r.remainingAmount, sellItem.balanceLeft)
      r1 == PutItem(r, sellItem.id,
                    [d.sellItems[sellItem.id] EXCEPT
                       !.paymentReceived = sellItem.paymentReceived + allocatableAmount,
                       !.balanceLeft = sellItem.balanceLeft - allocatableAmount])
      r2 == [r1 EXCEPT
               !.allocations = Append(@, [sellItemId |-> sellItem.id,
                                          amount |-> allocatableAmount]),
               !.remainingAmount = @ - allocatableAmount,
               !.idx = @ + 1]
  IN Out(d, [r2 EXCEPT !.pc = IF r2.idx > Len(r.sellItemsWithBalance)
                                    \/ r2.remainingAmount <= 0
                                 THEN "cpp_commit" ELSE "cpp_loop"])

\* CppCommit with creditBalance: remainingAmount, the credit already held
\* by the party forgotten.
CppCommitOverwritesCredit(d, r) ==
  LET r1 == IF r.remainingAmount > 0
              THEN [PutCredit(r, r.partyId, r.remainingAmount)
                      EXCEPT !.creditAdded = r.remainingAmount]
              ELSE r
  IN Out(Commit(d, r1), [Committed(r1) EXCEPT !.pc = "cpp_notify"])

\* tx.paymentAllocation.createMany, the credit for an overpayment, the commit.
CppCommit(d, r) ==
  LET r1 == IF r.remainingAmount > 0
              THEN [PutCredit(r, r.partyId, r.partyCredit + r.remainingAmount)
                      EXCEPT !.creditAdded = r.remainingAmount]
              ELSE r
  IN Out(Commit(d, r1), [Committed(r1) EXCEPT !.pc = "cpp_notify"])

\* -------------------- DELETE /api/party-payments/:id (deletePartyPayment)
\* include: { allocations }: the allocation rows of a party payment, here in
\* the order of their sell items (the reversal's result does not depend on it).
RECURSIVE AllocationsOf(_, _, _)
AllocationsOf(d, id, items) ==
  IF items = {} THEN << >>
  ELSE LET i == CHOOSE j \in items : \A k \in items : j <= k
           rows == {a \in d.paymentAllocations :
                      a.partyPaymentId = id /\ a.sellItemId = i}
       IN (IF rows = {} THEN << >>
           ELSE <<[sellItemId |-> i, amount |-> (CHOOSE a \in rows : TRUE).amount]>>)
          \o AllocationsOf(d, id, items \ {i})

\* The snapshot findUnique takes of a party payment and its allocations.
DppFound(d, r, partyPayment) ==
  [r EXCEPT !.pc = "dpp_begin",
            !.partyId = partyPayment.partyId,
            !.ppAmount = partyPayment.amount,
            !.ppAllocations = AllocationsOf(d, r.targetId, DOMAIN d.sellItems)]

\* DppStart without the role test.
DppStartNoRoleTest(d, r) ==
  IF \A pp \in d.partyPayments : pp.id # r.targetId
    THEN Out(d, End(r, "NotFound"))
  ELSE LET partyPayment == CHOOSE pp \in d.partyPayments : pp.id = r.targetId
       IN IF partyPayment.isDeleted THEN Out(d, End(r, "AlreadyDeleted"))
          ELSE Out(d, DppFound(d, r, partyPayment))

\* DppStart without the isDeleted test.
DppStartNoDeletedTest(d, r) ==
  IF r.actor # "admin" THEN Out(d, End(r, "Forbidden"))
  ELSE IF \A pp \in d.partyPayments : pp.id # r.targetId
    THEN Out(d, End(r, "NotFound"))
  ELSE Out(d, DppFound(d, r, CHOOSE pp \in d.partyPayments : pp.id = r.targetId))

DppStart(d, r) ==
  IF r.actor # "admin" THEN Out(d, End(r, "Forbidden"))
  ELSE IF \A pp \in d.partyPayments : pp.id # r.targetId
    THEN Out(d, End(r, "NotFound"))
  ELSE LET partyPayment == CHOOSE pp \in d.partyPayments : pp.id = r.targetId
       IN IF partyPayment.isDeleted THEN Out(d, End(r, "AlreadyDeleted"))
          ELSE Out(d, DppFound(d, r, partyPayment))

\* DppBegin with notifyAdmin called inside the transaction, ahead of the
\* commit.
DppBeginNotifies(d, r) ==
  Out(d, [r EXCEPT !.txDeleted = {r.targetId}, !.wrote = @ + 1, !.idx = 1,
                   !.notified = TRUE,
                   !.pc = IF r.ppAllocations = << >> THEN "dpp_commit" ELSE "dpp_loop"])

\* 1. tx.partyPayment.update: the soft delete.
DppBegin(d, r) ==
  Out(d, [r EXCEPT !.txDeleted = {r.targetId}, !.wrote = @ + 1, !.idx = 1,
                   !.pc = IF r.ppAllocations = << >> THEN "dpp_commit" ELSE "dpp_loop"])

\* DppLoop without paymentReceived: { decrement }: only balanceLeft restored.
DppLoopNoDecrement(d, r) ==
  LET allocation == r.ppAllocations[r.idx]
      row == TxItem(d, r, allocation.sellItemId)
      r1 == PutItem(r, allocation.sellItemId,
                    [row EXCEPT !.balanceLeft = @ + allocation.amount])
  IN Out(d, [r1 EXCEPT !.idx = @ + 1,
                       !.pc = IF r.idx + 1 > Len(r.ppAllocations)
                                THEN "dpp_commit" ELSE "dpp_loop"])

\* 2. One turn of the reversal loop: decrement and increment act on the row
\* as it is when the UPDATE runs.
DppLoop(d, r) ==
  LET allocation == r.ppAllocations[r.idx]
      row == TxItem(d, r, allocation.sellItemId)
      r1 == PutItem(r, allocation.sellItemId,
                    [row EXCEPT !.paymentReceived = @ - allocation.amount,
                                !.balanceLeft = @ + allocation.amount])
  IN Out(d, [r1 EXCEPT !.idx = @ + 1,
                       !.pc = IF r.idx + 1 > Len(r.ppAllocations)
                                THEN "dpp_commit" ELSE "dpp_loop"])

\* The credit portion of the party payment being reversed.
CreditAmount(r) == r.ppAmount - SeqSumAmount(r.ppAllocations)

\* DppCommit without step 3: the credit portion stays with the party.
DppCommitKeepsCredit(d, r) ==
  Out(Commit(d, r), [Committed(r) EXCEPT !.pc = "dpp_notify"])

\* 3. The credit portion leaves the party's creditBalance; the commit.
DppCommit(d, r) ==
  LET creditAmount == CreditAmount(r)
      r1 == IF creditAmount > 0
              THEN PutCredit(r, r.partyId, TxCredit(d, r, r.partyId) - creditAmount)
              ELSE r
  IN Out(Commit(d, r1), [Committed(r1) EXCEPT !.pc = "dpp_notify"])

\* --------------------------- PUT /api/transactions/:id (updateTransaction)
\* A form field of the request body: left out, or given with a value.
Fields ==
  {[given |-> FALSE, value |-> 0]} \cup {[given |-> TRUE, value |-> v] : v \in 0..1}

\* The transaction of sell item id is updated by `actor`, who is or is not
\* its creator.  Of the sell item's fields the body gives payment_received
\* and balance_left at most (count and rate_per_item are left out, so
\* totalAmount stays); updateMany copies the given ones to the sell item.
updateTransaction(d, id, actor, isCreator, transaction_type, payment_received, balance_left) ==
  IF id \notin DOMAIN d.sellItems THEN [db |-> d, status |-> "NotFound"]
  ELSE IF ~isCreator /\ actor # "admin" THEN [db |-> d, status |-> "Forbidden"]
  ELSE IF transaction_type # "selling" THEN [db |-> d, status |-> "ok"]
  ELSE [db |-> [d EXCEPT !.sellItems[id] =
                  [@ EXCEPT
                     !.paymentReceived =
                        IF payment_received.given
                          THEN parseFloat(payment_received.value) ELSE @,
                     !.balanceLeft =
                        IF balance_left.given
                          THEN parseFloat(balance_left.value) ELSE @]],
        status |-> "ok"]

\* --------------------------------------------------------- the read side
\* listPartyPayments with the where clause { partyId } alone.
listPartyPaymentsUnfiltered(d, partyId) ==
  {pp.id : pp \in {q \in d.partyPayments : q.partyId = partyId}}

\* GET /api/party-payments: the ids of the rows findMany returns.
listPartyPayments(d, partyId) ==
  {pp.id : pp \in {q \in d.partyPayments : q.partyId = partyId /\ ~q.isDeleted}}

\* GET /api/parties/:id/details: party_payments, the included relation.
partyDetailsPartyPayments(d, partyId) ==
  {pp.id : pp \in {q \in d.partyPayments : q.partyId = partyId /\ ~q.isDeleted}}

\* GET /api/stats/summary: party_payments_count.
statsPartyPaymentsCount(d) ==
  Cardinality({pp \in d.partyPayments : ~pp.isDeleted})

\* GET /api/parties/:id/details: summary.total_received, the stored
\* paymentReceived of the party's sell items summed.
RECURSIVE SumPaymentReceived(_, _)
SumPaymentReceived(d, items) ==
  IF items = {} THEN 0
  ELSE LET si == CHOOSE j \in items : TRUE
       IN d.sellItems[si].paymentReceived + SumPaymentReceived(d, items \ {si})

partyDetailsTotalReceived(d, partyId) == SumPaymentReceived(d, PartyItems(partyId))

\* GET /api/parties/:id/details: the sell_items of the transaction list.
\* payment_received is paymentsTotal, the item's Payment rows summed.
partyDetailsSellItems(d, partyId) ==
  [item \in PartyItems(partyId) |->
     LET paymentsTotal == SumAmount({p \in d.payments : p.sellItemId = item})
     IN [total_amount |-> d.sellItems[item].totalAmount,
         payment_received |-> paymentsTotal,
         balance_left |-> d.sellItems[item].totalAmount - paymentsTotal]]

\* ------------------------------------------------------- one step, a run
\* The next step of request r on store d.  `order` is the order findMany
\* returns rows in, should this step be the findMany.
Step(d, r, order) ==
  CASE r.pc = "start" /\ r.op = "recordPayment" -> RpStart(d, r)
    [] r.pc = "start" /\ r.op = "deletePayment" -> DpStart(d, r)
    [] r.pc = "start" /\ r.op = "createPartyPayment" -> CppStart(d, r)
    [] r.pc = "start" /\ r.op = "deletePartyPayment" -> DppStart(d, r)
    [] r.pc = "rp_create" -> RpCreate(d, r)
    [] r.pc = "rp_aggregate" -> RpAggregate(d, r)
    [] r.pc = "rp_update" -> RpUpdate(d, r)
    [] r.pc = "dp_delete" -> DpDelete(d, r)
    [] r.pc = "dp_aggregate" -> DpAggregate(d, r)
    [] r.pc = "dp_update" -> DpUpdate(d, r)
    [] r.pc = "cpp_begin" -> CppBegin(d, r, order)
    [] r.pc = "cpp_loop" -> CppLoop(d, r)
    [] r.pc = "cpp_commit" -> CppCommit(d, r)
    [] r.pc = "dpp_begin" -> DppBegin(d, r)
    [] r.pc = "dpp_loop" -> DppLoop(d, r)
    [] r.pc = "dpp_commit" -> DppCommit(d, r)
    [] r.pc \in {"rp_notify", "cpp_notify", "dpp_notify"} -> Notify(d, r)

\* A handler run from its first statement to its answer, nothing interleaved.
RECURSIVE Run(_, _, _)
Run(d, r, order) ==
  IF r.pc = "done" THEN Out(d, r)
  ELSE LET o == Step(d, r, order) IN Run(o.db, o.r, order)

\* ------------------------------------------------------------ the start
InitReceived(i) == IF i = 1 THEN {0, 1} ELSE {0}

\* What a caller sees of a completed call: the operation, the actor's role,
\* the answer, the id of the row created or aimed at, and credit_added.
Answer(r) ==
  [op |-> r.op, actor |-> r.actor, status |-> r.status,
   id |-> IF r.status \in {"InvalidArgument", "NotFound"} THEN 0
          ELSE IF r.op \in {"recordPayment", "createPartyPayment"} THEN r.newId
          ELSE r.targetId,
   creditAdded |-> r.creditAdded]

NoCall == [op |-> "none", actor |-> "user", status |-> "none", id |-> 0, creditAdded |-> 0]

\* A store with no rows, standing where no snapshot of the store is kept.
EmptyStore ==
  [sellItems |-> <<>>, creditBalance |-> <<>>, payments |-> {},
   partyPayments |-> {}, paymentAllocations |-> {}]

NoStore == [on |-> FALSE, db |-> EmptyStore]

\* POST /api/transactions creates a sell item with
\* balanceLeft = totalAmount - paymentReceived; a party starts with no credit.
Init ==
  /\ \E received \in [Items -> {0, 1}] :
       /\ \A i \in Items : received[i] \in InitReceived(i)
       /\ sellItems = [i \in Items |->
                         [totalAmount |-> ItemTotal(i),
                          paymentReceived |-> received[i],
                          balanceLeft |-> ItemTotal(i) - received[i]]]
  /\ created = sellItems
  /\ creditBalance = [p \in Parties |-> 0]
  /\ payments = {}
  /\ partyPayments = {}
  /\ paymentAllocations = {}
  /\ nextPaymentId = 1
  /\ nextPartyPaymentId = 1
  /\ req = [s \in Slots |-> Idle]
  /\ arrivals = 0
  /\ last = NoCall
  /\ before = NoStore
  /\ shadow = EmptyStore
  /\ track = [phase |-> "off", id |-> 0, partyId |-> 0, with |-> 0, without |-> 0]

AnyOrder == CHOOSE o \in Orders : TRUE

\* Sum of balanceLeft over a set of sell items.
RECURSIVE SumBalance(_, _)
SumBalance(d, items) ==
  IF items = {} THEN 0
  ELSE LET i == CHOOSE j \in items : TRUE
       IN d.sellItems[i].balanceLeft + SumBalance(d, items \ {i})

\* ------------------------------------- Spec: one handler run per action
\* The run that leaves party payment P out: it follows every call but P's
\* creation and P's deletion.  P is any one party payment, picked when it is
\* created; when P's deletion succeeds the two runs' sums are recorded.
Follow(r, o, order) ==
  \/ /\ track.phase = "off"
     /\ UNCHANGED <<shadow, track>>
  \/ /\ track.phase = "off"
     /\ r.op = "createPartyPayment" /\ o.r.status = "ok"
     /\ shadow' = Store
     /\ track' = [track EXCEPT !.phase = "on", !.id = r.newId, !.partyId = r.partyId]
  \/ /\ track.phase = "on"
     /\ r.op = "deletePartyPayment" /\ r.targetId = track.id
     /\ IF o.r.status = "ok"
          THEN /\ track' = [track EXCEPT
                              !.phase = "closed",
                              !.with = SumBalance(o.db, PartyItems(track.partyId)),
                              !.without = SumBalance(shadow, PartyItems(track.partyId))]
               /\ shadow' = EmptyStore
          ELSE UNCHANGED <<shadow, track>>
  \/ /\ track.phase = "on"
     /\ ~(r.op = "deletePartyPayment" /\ r.targetId = track.id)
     /\ shadow' = Run(shadow, r, order).db
     /\ UNCHANGED track
  \/ /\ track.phase = "closed"
     /\ UNCHANGED <<shadow, track>>

\* One call served from its first statement to its answer.  With `follow`
\* the run without P is kept beside it, and otherwise the caller's view.
Call(r, order, follow) ==
  LET o == Run(Store, r, order)
  IN /\ SetStore(o.db)
     /\ IF follow
          THEN Follow(r, o, order) /\ UNCHANGED <<last, before>>
          ELSE /\ last' = Answer(o.r)
               /\ before' =
                    IF r.op \in {"createPartyPayment", "recordPayment"}
                       /\ o.r.status = "ok"
                      THEN [on |-> TRUE, db |-> Store]
                    ELSE IF /\ before.on /\ last.op = "createPartyPayment"
                            /\ r.op = "deletePartyPayment" /\ o.r.status = "ok"
                            /\ r.targetId = last.id
                      THEN before
                    ELSE IF /\ before.on /\ last.op = "recordPayment"
                            /\ r.op = "deletePayment" /\ o.r.status = "ok"
                            /\ r.targetId = last.id
                      THEN before
                    ELSE NoStore
               /\ UNCHANGED <<shadow, track>>
     /\ nextPaymentId' =
          IF r.op = "recordPayment" /\ o.r.status = "ok"
            THEN nextPaymentId + 1 ELSE nextPaymentId
     /\ nextPartyPaymentId' =
          IF r.op = "createPartyPayment" /\ o.r.status = "ok"
            THEN nextPartyPaymentId + 1 ELSE nextPartyPaymentId
     /\ UNCHANGED <<created, req>>

RecordPayment(follow) ==
  /\ nextPaymentId <= MaxPayments
  /\ \E sellItemId \in ItemInputs, amount \in Amounts :
       Call(NewReq("recordPayment", "user", 0, sellItemId, 0, nextPaymentId, amount),
            AnyOrder, follow)

DeletePayment(follow) ==
  \E actor \in Roles, id \in 1..MaxPayments :
    Call(NewReq("deletePayment", actor, 0, 0, id, 0, 0), AnyOrder, follow)

CreatePartyPayment(follow) ==
  /\ nextPartyPaymentId <= MaxPartyPayments
  /\ \E partyId \in PartyInputs, amount \in Amounts, order \in Orders :
       Call(NewReq("createPartyPayment", "user", partyId, 0, 0, nextPartyPaymentId,
                   amount), order, follow)

DeletePartyPayment(follow) ==
  \E actor \in Roles, id \in 1..MaxPartyPayments :
    Call(NewReq("deletePartyPayment", actor, 0, 0, id, 0, 0), AnyOrder, follow)

Next ==
  \/ RecordPayment(FALSE) /\ UNCHANGED arrivals
  \/ DeletePayment(FALSE) /\ UNCHANGED arrivals
  \/ CreatePartyPayment(FALSE) /\ UNCHANGED arrivals
  \/ DeletePartyPayment(FALSE) /\ UNCHANGED arrivals

Spec == Init /\ [][Next]_vars

NextShadow ==
  \/ RecordPayment(TRUE) /\ UNCHANGED arrivals
  \/ DeletePayment(TRUE) /\ UNCHANGED arrivals
  \/ CreatePartyPayment(TRUE) /\ UNCHANGED arrivals
  \/ DeletePartyPayment(TRUE) /\ UNCHANGED arrivals

SpecShadow == Init /\ [][NextShadow]_vars

\* SpecEdit: runs of up to MaxRequests calls, each a payment call or an
\* update of a sell transaction.
UpdateTransaction ==
  /\ \E id \in Items \cup {UnknownItem}, actor \in Roles, isCreator \in BOOLEAN,
        transaction_type \in {"selling", "buying"},
        payment_received \in Fields, balance_left \in Fields :
       LET o == updateTransaction(Store, id, actor, isCreator, transaction_type,
                                  payment_received, balance_left)
       IN /\ SetStore(o.db)
          /\ last' = [op |-> "updateTransaction", actor |-> actor,
                      status |-> o.status, id |-> id, creditAdded |-> 0]
  /\ before' = NoStore
  /\ UNCHANGED <<created, nextPaymentId, nextPartyPaymentId, req, shadow, track>>

\* One more call is served, of MaxRequests at most.
Tally == arrivals < MaxRequests /\ arrivals' = arrivals + 1

NextEdit ==
  \/ Tally /\ RecordPayment(FALSE)
  \/ Tally /\ DeletePayment(FALSE)
  \/ Tally /\ CreatePartyPayment(FALSE)
  \/ Tally /\ DeletePartyPayment(FALSE)
  \/ Tally /\ UpdateTransaction

SpecEdit == Init /\ [][NextEdit]_vars

\* ------------------------- SpecTx: two requests, statement by statement
InFlight(r) == r.pc \notin {"idle", "done"}

\* The rows on which the open transaction of r holds a write.
Locks(r) ==
  {<<"sellItem", i>> : i \in DOMAIN r.txItems}
    \cup {<<"party", p>> : p \in DOMAIN r.txCredit}
    \cup {<<"partyPayment", id>> : id \in r.txDeleted}

\* The rows the next statement of r updates.
Writes(r) ==
  CASE r.pc \in {"rp_update", "dp_update"} -> {<<"sellItem", r.sellItemId>>}
    [] r.pc = "cpp_loop" -> {<<"sellItem", r.sellItemsWithBalance[r.idx].id>>}
    [] r.pc = "cpp_commit" ->
         IF r.remainingAmount > 0 THEN {<<"party", r.partyId>>} ELSE {}
    [] r.pc = "dpp_begin" -> {<<"partyPayment", r.targetId>>}
    [] r.pc = "dpp_loop" -> {<<"sellItem", r.ppAllocations[r.idx].sellItemId>>}
    [] r.pc = "dpp_commit" ->
         IF CreditAmount(r) > 0 THEN {<<"party", r.partyId>>} ELSE {}
    [] OTHER -> {}

\* An UPDATE waits while another open transaction holds a write on its row.
Blocked(s) == \E t \in Slots \ {s} : Writes(req[s]) \cap Locks(req[t]) # {}

\* Of an answered request the slot keeps the operation, the answer, and
\* whether it wrote and notified.
Answered(r) ==
  IF InFlight(r) THEN r
  ELSE [r EXCEPT !.actor = "user", !.targetId = 0, !.newId = 0, !.creditAdded = 0]

\* A request arrives (at the lowest free slot: slots are interchangeable) and
\* runs up to its first store write.  With `keep` the store it found is kept.
Arrive(s, r, keep) ==
  /\ ~InFlight(req[s])
  /\ \A t \in Slots : t < s => InFlight(req[t])
  /\ arrivals < MaxRequests
  /\ arrivals' = arrivals + 1
  /\ LET o == Step(Store, r, AnyOrder)
     IN /\ req' = [req EXCEPT ![s] = Answered(o.r)]
        /\ nextPaymentId' =
             IF r.op = "recordPayment" /\ InFlight(o.r)
               THEN nextPaymentId + 1 ELSE nextPaymentId
        /\ nextPartyPaymentId' =
             IF r.op = "createPartyPayment" /\ InFlight(o.r)
               THEN nextPartyPaymentId + 1 ELSE nextPartyPaymentId
  /\ before' = IF keep THEN [on |-> TRUE, db |-> Store] ELSE before
  /\ UNCHANGED <<created, sellItems, creditBalance, payments, partyPayments,
                 paymentAllocations, last, shadow, track>>

StartRecordPayment(s, keep) ==
  /\ nextPaymentId <= MaxPayments
  /\ \E sellItemId \in ItemInputs, amount \in Amounts :
       Arrive(s, NewReq("recordPayment", "user", 0, sellItemId, 0, nextPaymentId, amount),
              keep)

StartDeletePayment(s, keep) ==
  \E actor \in Roles, id \in 1..MaxPayments :
    Arrive(s, NewReq("deletePayment", actor, 0, 0, id, 0, 0), keep)

StartCreatePartyPayment(s, keep) ==
  /\ nextPartyPaymentId <= MaxPartyPayments
  /\ \E partyId \in PartyInputs, amount \in Amounts :
       Arrive(s, NewReq("createPartyPayment", "user", partyId, 0, 0,
                        nextPartyPaymentId, amount), keep)

StartDeletePartyPayment(s, keep) ==
  \E actor \in Roles, id \in 1..MaxPartyPayments :
    Arrive(s, NewReq("deletePartyPayment", actor, 0, 0, id, 0, 0), keep)

\* The statement at `pc` of the request in slot s.
Statement(s, pc, order) ==
  /\ req[s].pc = pc
  /\ ~Blocked(s)
  /\ LET o == Step(Store, req[s], order)
     IN SetStore(o.db) /\ req' = [req EXCEPT ![s] = Answered(o.r)]
  /\ UNCHANGED <<created, nextPaymentId, nextPartyPaymentId, arrivals, last, before,
                 shadow, track>>

RecordPaymentCreate(s) == Statement(s, "rp_create", AnyOrder)
RecordPaymentAggregate(s) == Statement(s, "rp_aggregate", AnyOrder)
RecordPaymentUpdate(s) == Statement(s, "rp_update", AnyOrder)
RecordPaymentNotify(s) == Statement(s, "rp_notify", AnyOrder)
DeletePaymentDelete(s) == Statement(s, "dp_delete", AnyOrder)
DeletePaymentAggregate(s) == Statement(s, "dp_aggregate", AnyOrder)
DeletePaymentUpdate(s) == Statement(s, "dp_update", AnyOrder)
CreatePartyPaymentBegin(s) == \E order \in Orders : Statement(s, "cpp_begin", order)
CreatePartyPaymentLoop(s) == Statement(s, "cpp_loop", AnyOrder)
CreatePartyPaymentCommit(s) == Statement(s, "cpp_commit", AnyOrder)
CreatePartyPaymentNotify(s) == Statement(s, "cpp_notify", AnyOrder)
DeletePartyPaymentBegin(s) == Statement(s, "dpp_begin", AnyOrder)
DeletePartyPaymentLoop(s) == Statement(s, "dpp_loop", AnyOrder)
DeletePartyPaymentCommit(s) == Statement(s, "dpp_commit", AnyOrder)
DeletePartyPaymentNotify(s) == Statement(s, "dpp_notify", AnyOrder)

\* The steps at which a handler awaits notifyAdmin.
NotifyPcs == {"rp_notify", "cpp_notify", "dpp_notify"}

\* An awaited store call throws (connection lost, deadlock victim, ...): the
\* handler's catch answers 400; an open transaction is rolled back, while
\* statements that ran outside a transaction stay.  notifyAdmin never throws.
Fail(s) ==
  /\ InFlight(req[s])
  /\ req[s].pc \notin NotifyPcs
  /\ req' = [req EXCEPT ![s] = Answered(Rollback(req[s]))]
  /\ UNCHANGED <<created, sellItems, creditBalance, payments, partyPayments,
                 paymentAllocations, nextPaymentId, nextPartyPaymentId, arrivals,
                 last, before, shadow, track>>

\* The request in slot s awaits notifyAdmin and the sink fails.
NotifySinkFails(s) ==
  /\ req[s].pc \in NotifyPcs
  /\ LET o == NotifyFailed(Store, req[s])
     IN SetStore(o.db) /\ req' = [req EXCEPT ![s] = Answered(o.r)]
  /\ UNCHANGED <<created, nextPaymentId, nextPartyPaymentId, arrivals, last, before,
                 shadow, track>>

Serve(s, keep) ==
  \/ StartRecordPayment(s, keep)
  \/ StartDeletePayment(s, keep)
  \/ StartCreatePartyPayment(s, keep)
  \/ StartDeletePartyPayment(s, keep)
  \/ RecordPaymentCreate(s)
  \/ RecordPaymentAggregate(s)
  \/ RecordPaymentUpdate(s)
  \/ RecordPaymentNotify(s)
  \/ DeletePaymentDelete(s)
  \/ DeletePaymentAggregate(s)
  \/ DeletePaymentUpdate(s)
  \/ CreatePartyPaymentBegin(s)
  \/ CreatePartyPaymentLoop(s)
  \/ CreatePartyPaymentCommit(s)
  \/ CreatePartyPaymentNotify(s)
  \/ DeletePartyPaymentBegin(s)
  \/ DeletePartyPaymentLoop(s)
  \/ DeletePartyPaymentCommit(s)
  \/ DeletePartyPaymentNotify(s)
  \/ NotifySinkFails(s)
  \/ Fail(s)

NextTx == \E s \in Slots : Serve(s, FALSE)

SpecTx == Init /\ [][NextTx]_vars

\* SpecOne: the same statements and failures, one request at a time, the
\* store each request found kept in `before`.
NextOne == Serve(1, TRUE)

SpecOne == Init /\ [][NextOne]_vars

\* SpecPay: direct payments only, two requests interleaved, with up to
\* MaxDirectPayments Payment rows.  SpecPayOne: every payment call, one
\* request at a time, with as many Payment rows.
StartRecordPaymentRows(s, keep) ==
  /\ nextPaymentId <= MaxDirectPayments
  /\ \E sellItemId \in ItemInputs, amount \in Amounts :
       Arrive(s, NewReq("recordPayment", "user", 0, sellItemId, 0, nextPaymentId, amount),
              keep)

StartDeletePaymentRows(s, keep) ==
  \E actor \in Roles, id \in 1..MaxDirectPayments :
    Arrive(s, NewReq("deletePayment", actor, 0, 0, id, 0, 0), keep)

ServeDirect(s, keep) ==
  \/ StartRecordPaymentRows(s, keep)
  \/ StartDeletePaymentRows(s, keep)
  \/ RecordPaymentCreate(s)
  \/ RecordPaymentAggregate(s)
  \/ RecordPaymentUpdate(s)
  \/ RecordPaymentNotify(s)
  \/ DeletePaymentDelete(s)
  \/ DeletePaymentAggregate(s)
  \/ DeletePaymentUpdate(s)
  \/ NotifySinkFails(s)
  \/ Fail(s)

ServeParty(s, keep) ==
  \/ StartCreatePartyPayment(s, keep)
  \/ StartDeletePartyPayment(s, keep)
  \/ CreatePartyPaymentBegin(s)
  \/ CreatePartyPaymentLoop(s)
  \/ CreatePartyPaymentCommit(s)
  \/ CreatePartyPaymentNotify(s)
  \/ DeletePartyPaymentBegin(s)
  \/ DeletePartyPaymentLoop(s)
  \/ DeletePartyPaymentCommit(s)
  \/ DeletePartyPaymentNotify(s)

NextPay == \E s \in Slots : ServeDirect(s, FALSE)

SpecPay == Init /\ [][NextPay]_vars

NextPayOne == ServeDirect(1, TRUE) \/ ServeParty(1, TRUE)

SpecPayOne == Init /\ [][NextPayOne]_vars

\* =================================================================== claims
\* The allocation rows of party payment id, and the row of that party payment.
AllocationRows(rows, id) == {a \in rows : a.partyPaymentId = id}
PartyPaymentRow(rows, id) == CHOOSE pp \in rows : pp.id = id

\* The last call was a createPartyPayment that succeeded.
Created == last.op = "createPartyPayment" /\ last.status = "ok"

\* C1: for every createPartyPayment call that succeeds, the amounts of the
\* PaymentAllocation rows created for its PartyPayment plus the returned
\* creditAdded make up the amount exactly.
C1_AllocationConservation ==
  Created =>
    SumAmount(AllocationRows(paymentAllocations, last.id)) + last.creditAdded
      = PartyPaymentRow(partyPayments, last.id).amount

\* C2: after any sequence of completed recordPayment, deletePayment,
\* createPartyPayment and deletePartyPayment calls, every sell item has
\* balanceLeft = totalAmount - paymentReceived.
C2_BalanceInvariant ==
  \A i \in Items :
    sellItems[i].balanceLeft = sellItems[i].totalAmount - sellItems[i].paymentReceived

\* C2's case: direct payments and party payments, one of them reversed, have
\* all moved the balance of one sell item.
C2_Witness ==
  \E i \in Items :
    /\ \E p \in payments : p.sellItemId = i
    /\ \E a \in paymentAllocations :
         /\ a.sellItemId = i
         /\ PartyPaymentRow(partyPayments, a.partyPaymentId).isDeleted
    /\ sellItems[i].paymentReceived # created[i].paymentReceived

\* This step is a createPartyPayment call that succeeds.
CreatedNow ==
  /\ last'.op = "createPartyPayment" /\ last'.status = "ok"
  /\ nextPartyPaymentId' = nextPartyPaymentId + 1

\* The party's sell items createPartyPayment may allocate to, and the party's
\* total outstanding balance T.
Eligible(partyId) == {i \in PartyItems(partyId) : sellItems[i].balanceLeft > 0}
Outstanding(partyId) == SumBalance(Store, Eligible(partyId))

\* C1 for amounts above 0 only.
C1_ConservationOfPositiveAmounts ==
  (Created /\ PartyPaymentRow(partyPayments, last.id).amount > 0) =>
    SumAmount(AllocationRows(paymentAllocations, last.id)) + last.creditAdded
      = PartyPaymentRow(partyPayments, last.id).amount

\* C3: createPartyPayment allocates oldest-first: an item receives an
\* allocation only if it was eligible and every older eligible item has been
\* brought to balanceLeft 0 by this payment; at most one item is left
\* partially paid; and nothing goes to credit while the payment fits the
\* outstanding balance.
C3_OldestFirst ==
  [][CreatedNow =>
       LET pp == PartyPaymentRow(partyPayments', last'.id)
           allocated == {a.sellItemId : a \in AllocationRows(paymentAllocations', pp.id)}
       IN /\ allocated \subseteq Eligible(pp.partyId)
          /\ \A i \in allocated : \A j \in Eligible(pp.partyId) :
               ItemDate(j) < ItemDate(i) =>
                 j \in allocated /\ sellItems'[j].balanceLeft = 0
          /\ Cardinality({i \in allocated : sellItems'[i].balanceLeft > 0}) <= 1
          /\ pp.amount <= Outstanding(pp.partyId) => last'.creditAdded = 0]_vars

\* C3's case: the payment exhausted the oldest item, filled a newer one in
\* part and left a third eligible item untouched, with no credit.
C3_Witness ==
  /\ Created
  /\ last.creditAdded = 0
  /\ LET pp == PartyPaymentRow(partyPayments, last.id)
         allocated == {a.sellItemId : a \in AllocationRows(paymentAllocations, pp.id)}
     IN \E i, j, k \in PartyItems(pp.partyId) :
          /\ i \in allocated /\ sellItems[i].balanceLeft = 0
          /\ j \in allocated /\ sellItems[j].balanceLeft > 0
          /\ k \notin allocated /\ sellItems[k].balanceLeft > 0
          /\ ItemDate(i) < ItemDate(j) /\ ItemDate(j) <= ItemDate(k)

\* C4: a createPartyPayment of more than the party's outstanding balance T
\* allocates T in all, returns creditAdded = amount - T, and leaves the
\* party's creditBalance at its value before the call plus creditAdded.
C4_OverpaymentBanked ==
  [][CreatedNow =>
       LET pp == PartyPaymentRow(partyPayments', last'.id)
           T == Outstanding(pp.partyId)
       IN pp.amount > T =>
            /\ SumAmount(AllocationRows(paymentAllocations', pp.id)) = T
            /\ last'.creditAdded = pp.amount - T
            /\ creditBalance'[pp.partyId] =
                 creditBalance[pp.partyId] + last'.creditAdded]_vars

\* C4's case: an overpayment that paid items off and banked the rest.
C4_Witness ==
  /\ Created
  /\ last.creditAdded > 0
  /\ AllocationRows(paymentAllocations, last.id) # {}
  /\ creditBalance[PartyPaymentRow(partyPayments, last.id).partyId] >= last.creditAdded

\* The last call reversed the party payment that the call before it created.
RoundTrip ==
  last.op = "deletePartyPayment" /\ last.status = "ok" /\ before.on

\* C5: createPartyPayment followed at once by an admin's deletePartyPayment
\* of the payment created restores paymentReceived and balanceLeft of every
\* sell item and the party's creditBalance to their values before the creation.
C5_ReversalRoundTrip ==
  RoundTrip =>
    /\ sellItems = before.db.sellItems
    /\ creditBalance = before.db.creditBalance

\* C5's case: the payment reversed had allocations and a credit portion.
C5_Witness ==
  /\ RoundTrip
  /\ AllocationRows(paymentAllocations, last.id) # {}
  /\ PartyPaymentRow(partyPayments, last.id).amount
       > SumAmount(AllocationRows(paymentAllocations, last.id))

\* C6: when party payment P is created and later deleted, with other payment
\* calls in between, the sum of balanceLeft over the party's sell items after
\* the deletion is the sum of the run that leaves P's creation and deletion
\* out, and P is still there as a deleted record.
C6_AsIfNeverCreated ==
  track.phase = "closed" =>
    /\ track.with = track.without
    /\ \E pp \in partyPayments : pp.id = track.id /\ pp.isDeleted

\* The sell items hold what they were created with plus what the party
\* payments' allocation rows record against them.
AllocationsApplied ==
  \A i \in Items :
    LET allocated == SumAmount({a \in paymentAllocations : a.sellItemId = i})
    IN /\ sellItems[i].paymentReceived = created[i].paymentReceived + allocated
       /\ sellItems[i].balanceLeft = created[i].balanceLeft - allocated

\* No request is in flight, and nothing but createPartyPayment has written:
\* no Payment row was ever created and no party payment was reversed.
OnlyAllocationsRan ==
  /\ \A s \in Slots : ~InFlight(req[s])
  /\ nextPaymentId = 1
  /\ \A pp \in partyPayments : ~pp.isDeleted

\* C7: however two createPartyPayment runs for one party interleave, once
\* both have committed each sell item's paymentReceived has risen, and its
\* balanceLeft fallen, by the sum of the allocations the runs recorded on it.
C7_NoLostAllocation == OnlyAllocationsRan => AllocationsApplied

\* C8: a createPartyPayment or deletePartyPayment that fails after it has
\* started writing leaves the store as it was before the call.
C8_FailureLeavesStore ==
  \A s \in Slots :
    (/\ req[s].pc = "done" /\ req[s].status = "StoreFailure"
     /\ req[s].op \in {"createPartyPayment", "deletePartyPayment"}
     /\ req[s].wrote > 0)
      => Store = before.db

\* C8's case: the call failed after the party payment row and the update of
\* at least one sell item.
C8_Witness ==
  \E s \in Slots :
    /\ req[s].pc = "done" /\ req[s].status = "StoreFailure"
    /\ req[s].op \in {"createPartyPayment", "deletePartyPayment"}
    /\ req[s].wrote > 1

StoreUnchanged ==
  UNCHANGED <<sellItems, creditBalance, payments, partyPayments, paymentAllocations>>

\* C9: deletePartyPayment and deletePayment by an actor who is not admin fail
\* with Forbidden and change no sell item, no creditBalance and no Payment,
\* PartyPayment or PaymentAllocation row.
C9_AdminGate ==
  [][(last'.op \in {"deletePayment", "deletePartyPayment"} /\ last'.actor # "admin")
       => (last'.status = "Forbidden" /\ StoreUnchanged)]_vars

\* C9's case: a non-admin aimed at a live party payment with allocations while
\* a direct payment existed too.
C9_Witness ==
  /\ last.op = "deletePartyPayment" /\ last.actor # "admin"
  /\ last.status = "Forbidden"
  /\ \E pp \in partyPayments : pp.id = last.id /\ ~pp.isDeleted
  /\ AllocationRows(paymentAllocations, last.id) # {}
  /\ payments # {}

\* C10: a deletePartyPayment by an admin of a party payment that an earlier
\* deletePartyPayment has deleted fails with AlreadyDeleted and changes
\* nothing.
C10_DoubleDeletionGuard ==
  [][(/\ last'.op = "deletePartyPayment" /\ last'.actor = "admin"
      /\ \E pp \in partyPayments : pp.id = last'.id /\ pp.isDeleted)
       => (last'.status = "AlreadyDeleted" /\ StoreUnchanged)]_vars

\* C10's case: the second deletion of a party payment that had allocations
\* and a credit portion.
C10_Witness ==
  /\ last.op = "deletePartyPayment" /\ last.status = "AlreadyDeleted"
  /\ AllocationRows(paymentAllocations, last.id) # {}
  /\ PartyPaymentRow(partyPayments, last.id).amount
       > SumAmount(AllocationRows(paymentAllocations, last.id))

\* The rows of the party payments that are not deleted, and the part of a
\* party payment that createPartyPayment banked as credit.
Live(rows) == {pp \in rows : ~pp.isDeleted}
CreditPortion(pp) ==
  LET rest == pp.amount - SumAmount(AllocationRows(paymentAllocations, pp.id))
  IN IF rest > 0 THEN rest ELSE 0

\* Sell items and parties hold what the party payments that are not deleted
\* gave them, and nothing of the deleted ones.
ReversalsApplied ==
  /\ \A i \in Items :
       LET allocated ==
             SumAmount({a \in paymentAllocations :
                          /\ a.sellItemId = i
                          /\ ~PartyPaymentRow(partyPayments, a.partyPaymentId).isDeleted})
       IN /\ sellItems[i].paymentReceived = created[i].paymentReceived + allocated
          /\ sellItems[i].balanceLeft = created[i].balanceLeft - allocated
  /\ \A p \in Parties :
       LET rows == {pp \in Live(partyPayments) : pp.partyId = p}
       IN creditBalance[p] =
            SumAmount({[id |-> pp.id, amount |-> CreditPortion(pp)] : pp \in rows})

\* No request is in flight, no Payment row was ever created, and at most one
\* createPartyPayment ran.
OnePartyPaymentOnly ==
  /\ \A s \in Slots : ~InFlight(req[s])
  /\ nextPaymentId = 1
  /\ nextPartyPaymentId <= 2

\* C11: however two deletePartyPayment requests on one party payment
\* interleave, its allocations are reversed at most once: each sell item it
\* touched gets the allocation amount back once and the party's creditBalance
\* falls by the credit portion once.
C11_ReversedAtMostOnce == OnePartyPaymentOnly => ReversalsApplied

\* C12: recordPayment against one sell item leaves paymentReceived and
\* balanceLeft of every other sell item, and every party's creditBalance, as
\* they were.
C12_DirectPaymentIndependence ==
  [][last'.op = "recordPayment" =>
       /\ creditBalance' = creditBalance
       /\ \A i \in Items :
            (\A p \in payments' \ payments : p.sellItemId # i)
              => sellItems'[i] = sellItems[i]]_vars

\* C12's case: a direct payment was recorded while another sell item carried
\* an allocation and a party had credit.
C12_Witness ==
  /\ last.op = "recordPayment" /\ last.status = "ok"
  /\ \E p \in payments : \E a \in paymentAllocations :
       /\ p.id = last.id
       /\ a.sellItemId # p.sellItemId
       /\ ~PartyPaymentRow(partyPayments, a.partyPaymentId).isDeleted
       /\ sellItems[a.sellItemId].paymentReceived > created[a.sellItemId].paymentReceived
  /\ \E q \in Parties : creditBalance[q] > 0

\* This step is a successful createPartyPayment that repeats the party and
\* the amount of the successful createPartyPayment answered just before it.
Resubmitted ==
  /\ last.op = "createPartyPayment" /\ last.status = "ok"
  /\ CreatedNow
  /\ LET first == PartyPaymentRow(partyPayments, last.id)
         second == PartyPaymentRow(partyPayments', last'.id)
     IN first.partyId = second.partyId /\ first.amount = second.amount

\* C13: two identical createPartyPayment submissions, one after the other,
\* make two PartyPayment rows with disjoint allocation sets, the second
\* allocated against the balances the first left, and for each of the two
\* the allocation amounts plus creditAdded make up the amount.
C13_NotDeduplicated ==
  [][Resubmitted =>
       LET first == AllocationRows(paymentAllocations', last.id)
           second == AllocationRows(paymentAllocations', last'.id)
           amount == PartyPaymentRow(partyPayments', last'.id).amount
       IN /\ last'.id # last.id
          /\ \E pp \in partyPayments' : pp.id = last.id
          /\ first \cap second = {}
          /\ first = AllocationRows(paymentAllocations, last.id)
          /\ \A a \in second :
               /\ a.amount <= sellItems[a.sellItemId].balanceLeft
               /\ sellItems'[a.sellItemId].balanceLeft
                    = sellItems[a.sellItemId].balanceLeft - a.amount
          /\ SumAmount(first) + last.creditAdded = amount
          /\ SumAmount(second) + last'.creditAdded = amount]_vars

\* C14: recordPayment and createPartyPayment with a missing, zero or negative
\* amount store nothing, so every stored Payment and PartyPayment has an
\* amount above 0.
C14_AmountsArePositive ==
  /\ \A p \in payments : p.amount > 0
  /\ \A pp \in partyPayments : pp.amount > 0

\* C15: when the notification sink fails during recordPayment,
\* createPartyPayment or deletePartyPayment, the call is still answered with
\* success, and the store is the one a successful notification leaves.
C15_SinkFailureSwallowed ==
  [][\A s \in Slots :
       (req[s].pc \in NotifyPcs /\ req'[s].pc = "done") =>
         /\ req'[s].status = Notify(Store, req[s]).r.status
         /\ req'[s].status = "ok"
         /\ Store' = Notify(Store, req[s]).db]_vars

\* C15's case: a createPartyPayment that wrote a party payment and a sell
\* item was answered with success though its notification failed.
C15_Witness ==
  \E s \in Slots :
    /\ req[s].op = "createPartyPayment"
    /\ req[s].pc = "done" /\ req[s].status = "ok"
    /\ ~req[s].notified
    /\ req[s].wrote > 1
    /\ partyPayments # {} /\ paymentAllocations # {}

\* The read side leaves the deleted party payments of store d out.
DeletedAreHidden(d) ==
  /\ \A pp \in d.partyPayments :
       pp.isDeleted =>
         /\ pp.id \notin listPartyPayments(d, pp.partyId)
         /\ pp.id \notin partyDetailsPartyPayments(d, pp.partyId)
  /\ statsPartyPaymentsCount(d) =
       Cardinality(d.partyPayments)
         - Cardinality({pp \in d.partyPayments : pp.isDeleted})

\* C16: once deletePartyPayment(P) has succeeded, P stays deleted, and in
\* this and every later state neither the list of its party's payments nor
\* the party detail returns it, nor does party_payments_count count it.
C16_DeletedStayHidden ==
  [][/\ DeletedAreHidden(Store)
     /\ DeletedAreHidden(Store')
     /\ \A pp \in partyPayments : pp.isDeleted => pp \in partyPayments']_vars

\* C16's case: of two payments of one party the deleted one is hidden and
\* the other is listed, after a later call has been served.
C16_Witness ==
  /\ last.op # "deletePartyPayment"
  /\ \E pp, qq \in partyPayments :
       /\ pp.partyId = qq.partyId
       /\ pp.isDeleted /\ ~qq.isDeleted
       /\ listPartyPayments(Store, pp.partyId) = {qq.id}
       /\ partyDetailsPartyPayments(Store, pp.partyId) = {qq.id}
  /\ statsPartyPaymentsCount(Store) < Cardinality(partyPayments)

\* C17: paymentReceived, balanceLeft and creditBalance are changed by
\* recordPayment, deletePayment, createPartyPayment and deletePartyPayment
\* only: updating a transaction leaves them as they were.
C17_OnlyPaymentCallsWrite ==
  [][last'.op = "updateTransaction" =>
       /\ creditBalance' = creditBalance
       /\ \A i \in Items :
            /\ sellItems'[i].paymentReceived = sellItems[i].paymentReceived
            /\ sellItems'[i].balanceLeft = sellItems[i].balanceLeft]_vars

\* The Payment rows of store rows that are on sell item i.
PaymentRows(rows, i) == {p \in rows : p.sellItemId = i}

\* C18: when a recordPayment or an admin's deletePayment on a sell item
\* completes, no other request being in flight, the item's paymentReceived
\* is the sum of the Payment rows that then exist for it and its balanceLeft
\* is totalAmount less that sum.
C18_TotalsFromPaymentRows ==
  [][\A s \in Slots :
       (/\ req[s].op \in {"recordPayment", "deletePayment"}
        /\ InFlight(req[s])
        /\ req'[s].pc = "done" /\ req'[s].status = "ok"
        /\ \A t \in Slots \ {s} : ~InFlight(req[t]))
         => LET i == req[s].sellItemId
                sum == SumAmount(PaymentRows(payments', i))
            IN /\ sellItems'[i].paymentReceived = sum
               /\ sellItems'[i].balanceLeft = sellItems'[i].totalAmount - sum]_vars

\* C18's case: a recordPayment completed on a sell item that has two Payment
\* rows and allocations of a party payment; the sum of the rows exceeds
\* totalAmount and balanceLeft is below 0.
C18_Witness ==
  \E s \in Slots : \E i \in Items :
    /\ req[s].op = "recordPayment" /\ req[s].pc = "done" /\ req[s].status = "ok"
    /\ Cardinality(PaymentRows(payments, i)) = 2
    /\ \E a \in paymentAllocations : a.sellItemId = i
    /\ sellItems[i].paymentReceived = SumAmount(PaymentRows(payments, i))
    /\ sellItems[i].balanceLeft < 0

\* C19: once every recordPayment and deletePayment request has finished,
\* however they interleaved and wherever one failed, paymentReceived of a
\* sell item with Payment rows is the sum of those rows.
C19_TotalsReflectPaymentRows ==
  (\A s \in Slots : ~InFlight(req[s])) =>
    \A p \in payments :
      sellItems[p.sellItemId].paymentReceived
        = SumAmount(PaymentRows(payments, p.sellItemId))

\* C20: no step of recordPayment or createPartyPayment with an amount above
\* 0 lowers the paymentReceived of a sell item.
C20_ReceivedNeverFalls ==
  [][(/\ last'.op \in {"recordPayment", "createPartyPayment"}
      /\ \A p \in payments' \ payments : p.amount > 0
      /\ \A pp \in partyPayments' \ partyPayments : pp.amount > 0)
       => \A i \in Items :
            sellItems'[i].paymentReceived >= sellItems[i].paymentReceived]_vars

\* C21: every PaymentAllocation that createPartyPayment commits has an amount
\* above 0 and not above the balanceLeft stored for its sell item when the
\* commit happens, so that the commit leaves no balanceLeft below 0.
C21_AllocationWithinBalance ==
  [][\A s \in Slots :
       (req[s].pc = "cpp_commit" /\ req'[s].pc = "cpp_notify") =>
         \A a \in paymentAllocations' \ paymentAllocations :
           /\ a.amount > 0
           /\ a.amount <= sellItems[a.sellItemId].balanceLeft
           /\ sellItems'[a.sellItemId].balanceLeft >= 0]_vars

\* C22: createPartyPayment banks credit only when no sell item of the party
\* is left to pay: whenever it commits with creditAdded above 0, every sell
\* item of the party has balanceLeft <= 0 in the committed state.
C22_CreditOnlyAfterExhaustion ==
  [][\A s \in Slots :
       (/\ req[s].pc = "cpp_commit" /\ req'[s].pc = "cpp_notify"
        /\ req'[s].creditAdded > 0)
         => \A i \in PartyItems(req[s].partyId) : sellItems'[i].balanceLeft <= 0]_vars

\* C22's case: a createPartyPayment paid off the three sell items of its
\* party, one of which a direct payment had overpaid, and banked the rest.
C22_Witness ==
  \E s \in Slots :
    /\ req[s].op = "createPartyPayment" /\ req[s].pc = "cpp_notify"
    /\ req[s].creditAdded > 0
    /\ Cardinality(AllocationRows(paymentAllocations, req[s].newId)) >= 1
    /\ \E i \in Items : sellItems[i].balanceLeft < 0 /\ ItemParty(i) = 1
    /\ \A i \in PartyItems(1) : sellItems[i].balanceLeft <= 0
    /\ creditBalance[1] > 0

\* C23: createPartyPayment only adds to the credit of its party: the
\* creditBalance it commits is the creditBalance stored just before the
\* commit plus creditAdded, and so never lower, also when another
\* createPartyPayment of the party committed since the party was looked up.
C23_CreditAccumulates ==
  [][\A s \in Slots :
       (req[s].pc = "cpp_commit" /\ req'[s].pc = "cpp_notify") =>
         /\ creditBalance'[req[s].partyId]
              = creditBalance[req[s].partyId] + req'[s].creditAdded
         /\ creditBalance'[req[s].partyId] >= creditBalance[req[s].partyId]]_vars

\* C24: deletePartyPayment destroys nothing: its commit leaves every
\* PaymentAllocation row as it was and every PartyPayment row in place, the
\* target changed only in isDeleted (now true), deletedAt, deletedBy and
\* deleteReason; and no step of any request removes a PartyPayment or
\* PaymentAllocation row or takes isDeleted back to false.
C24_SoftDeleteOnly ==
  [][/\ paymentAllocations \subseteq paymentAllocations'
     /\ \A pp \in partyPayments :
          \E q \in partyPayments' : q.id = pp.id /\ (pp.isDeleted => q.isDeleted)
     /\ \A s \in Slots :
          (req[s].pc = "dpp_commit" /\ req'[s].pc = "dpp_notify") =>
            /\ paymentAllocations' = paymentAllocations
            /\ Cardinality(partyPayments') = Cardinality(partyPayments)
            /\ \A pp \in partyPayments :
                 IF pp.id = req[s].targetId
                   THEN \E q \in partyPayments' :
                          /\ q.id = pp.id /\ q.partyId = pp.partyId
                          /\ q.amount = pp.amount /\ q.isDeleted
                          /\ q.deletedAt # "null" /\ q.deletedBy # "null"
                          /\ q.deleteReason # "null"
                   ELSE pp \in partyPayments']_vars

\* C24's case: a party payment with an allocation has been deleted, and its
\* row and its allocation are still stored.
C24_Witness ==
  \E s \in Slots :
    /\ req[s].op = "deletePartyPayment" /\ req[s].pc = "dpp_notify"
    /\ \E pp \in partyPayments :
         /\ pp.id = req[s].targetId /\ pp.isDeleted
         /\ AllocationRows(paymentAllocations, pp.id) # {}

\* The request in slot s has no write waiting in an open transaction, and
\* what it set out to write is in the store.
WritesCommitted(s) ==
  LET r == req[s]
  IN /\ r.txItems = EmptyFn /\ r.txCredit = EmptyFn
     /\ r.txCreated = {} /\ r.txDeleted = {}
     /\ CASE r.op = "recordPayment" -> r.wrote = 2
          [] r.op = "createPartyPayment" ->
               /\ \E pp \in partyPayments : pp.id = r.newId
               /\ \A k \in DOMAIN r.allocations :
                    [partyPaymentId |-> r.newId,
                     sellItemId |-> r.allocations[k].sellItemId,
                     amount |-> r.allocations[k].amount] \in paymentAllocations
          [] r.op = "deletePartyPayment" ->
               \E pp \in partyPayments : pp.id = r.targetId /\ pp.isDeleted
          [] OTHER -> FALSE

\* C25: recordPayment, createPartyPayment and deletePartyPayment emit their
\* notification at most once per request (the request that has emitted it
\* has ended), only once the writes of the request are committed, and never
\* for a request that was rejected or whose transaction was rolled back.
C25_NotifyAfterCommit ==
  [][\A s \in Slots :
       /\ (~req[s].notified /\ req'[s].notified) =>
            /\ req[s].op \in {"recordPayment", "createPartyPayment",
                              "deletePartyPayment"}
            /\ req'[s].op = req[s].op
            /\ WritesCommitted(s)
            /\ UNCHANGED Store
       /\ req'[s].notified => req'[s].pc = "done" /\ req'[s].status = "ok"]_vars

\* C25's case: a createPartyPayment has emitted its notification while the
\* other request, rolled back, has emitted none.
C25_Witness ==
  \E s, t \in Slots :
    /\ req[s].op = "createPartyPayment" /\ req[s].notified /\ req[s].status = "ok"
    /\ req[t].op = "deletePartyPayment" /\ req[t].status = "StoreFailure"
    /\ req[t].wrote > 0 /\ ~req[t].notified

\* The payment_received values of a list of sell items as shown, summed.
RECURSIVE SumShown(_, _)
SumShown(shown, items) ==
  IF items = {} THEN 0
  ELSE LET i == CHOOSE j \in items : TRUE
       IN shown[i].payment_received + SumShown(shown, items \ {i})

\* C26: in the party detail response summary.total_received equals the sum
\* of the payment_received values shown for the party's sell items in the
\* transaction list of the same response, after any sequence of direct
\* payments, party payments and reversals.
C26_SummaryMatchesList ==
  \A p \in Parties :
    partyDetailsTotalReceived(Store, p)
      = SumShown(partyDetailsSellItems(Store, p), PartyItems(p))

\* The allocations sell item i holds from party payments that are not deleted.
LiveAllocations(i) ==
  {a \in paymentAllocations :
     a.sellItemId = i /\ ~PartyPaymentRow(partyPayments, a.partyPaymentId).isDeleted}

\* C27: after any sequence of completed recordPayment, deletePayment,
\* createPartyPayment and deletePartyPayment calls, the paymentReceived of
\* every sell item is its paymentReceived at creation plus the sum of its
\* Payment rows plus the sum of the allocations it holds from party payments
\* that are not deleted.
C27_ReceivedIsConserved ==
  \A i \in Items :
    sellItems[i].paymentReceived
      = created[i].paymentReceived + SumAmount(PaymentRows(payments, i))
          + SumAmount(LiveAllocations(i))

\* The part of party payment pp that is not allocated to sell items.
Unallocated(pp) == pp.amount - SumAmount(AllocationRows(paymentAllocations, pp.id))

\* C28: whenever no request is in flight, also after createPartyPayment and
\* deletePartyPayment requests for the same party have interleaved, the
\* creditBalance of every party is the sum, over its party payments that are
\* not deleted, of the amount less the payment's allocations, and so is not
\* below 0.
C28_CreditIsUnallocatedMoney ==
  (\A s \in Slots : ~InFlight(req[s])) =>
    \A p \in Parties :
      /\ creditBalance[p]
           = SumAmount({[id |-> pp.id, amount |-> Unallocated(pp)] :
                          pp \in {q \in Live(partyPayments) : q.partyId = p}})
      /\ creditBalance[p] >= 0

\* Every amount a call has stored is above 0.
PositiveAmounts ==
  /\ \A p \in payments : p.amount > 0
  /\ \A pp \in partyPayments : pp.amount > 0
  /\ \A a \in paymentAllocations : a.amount > 0

\* C29: after any sequence of completed recordPayment, deletePayment,
\* createPartyPayment and deletePartyPayment calls with amounts above 0,
\* every sell item has paymentReceived >= 0 and balanceLeft <= totalAmount,
\* also when a party payment is reversed after a direct payment was recorded
\* on an item it had allocated to.
C29_ReceivedNotNegative ==
  PositiveAmounts =>
    \A i \in Items :
      /\ sellItems[i].paymentReceived >= 0
      /\ sellItems[i].balanceLeft <= sellItems[i].totalAmount

\* The last call deleted the Payment that the call before it recorded.
PaymentRoundTrip ==
  last.op = "deletePayment" /\ last.status = "ok" /\ before.on

\* C30: recordPayment on a sell item followed at once by an admin's
\* deletePayment of the Payment created restores the item's paymentReceived
\* and balanceLeft to their values before the recording (the two calls write
\* no other sell item), also when the item holds allocations of a party
\* payment.
C30_PaymentRoundTrip ==
  PaymentRoundTrip =>
    \A i \in Items :
      /\ sellItems[i].paymentReceived = before.db.sellItems[i].paymentReceived
      /\ sellItems[i].balanceLeft = before.db.sellItems[i].balanceLeft

====
